---- MODULE Spec2Model ----
(***************************************************************************)
(* TimeoutCond (src/concurrent/cond.go): a condition variable built on an  *)
(* unbuffered Go channel.  Goroutines are modelled as threads that step    *)
(* through the statements of Wait, WaitWithTimeout, Signal and Interrupt;  *)
(* the caller-supplied sync.Locker is a non-reentrant mutex.               *)
(*                                                                         *)
(* Callers follow the protocol of the cond: Wait, WaitWithTimeout and      *)
(* Signal are called with the lock held, Interrupt (which locks by itself) *)
(* without it.  Statements that run with the lock held and touch only what *)
(* the lock guards are one step; every statement that another goroutine    *)
(* can observe apart (Unlock, the receive, the deferred Lock, the deferred *)
(* removeWaiter, close, make) is a step of its own.  A panic ends the      *)
(* process: no action is enabled after it.                                 *)
(*                                                                         *)
(* Spec and LiveSpec are the cond under that protocol.  RaceSpec adds      *)
(* callers that call Signal without the lock, HeldSpec callers that call   *)
(* Interrupt with the lock held, and CounterSpec applies addWaiter and     *)
(* removeWaiter to the counter on its own.                                 *)
(***************************************************************************)
EXTENDS Integers, FiniteSets

\* ---------------------------------------------------------------- bounds
\* Goroutines; calls made on the cond in a run; the longest timeout, in
\* clock ticks; the bits kept of the uint64 waiter counter.
NumThreads == 3
MaxCalls == 3
MaxTimeout == 1
CounterBits == 3

Threads == 1..NumThreads
\* Channel identities: channel 0 is made by NewTimeoutCond, each Interrupt
\* makes the next one, and every Interrupt is one of at most MaxCalls calls.
Chans == 0..MaxCalls
\* The timeouts callers pass to WaitWithTimeout, in clock ticks.
Timeouts == 1..MaxTimeout
\* The clock is observed up to one tick past the longest timeout.
MaxElapsed == MaxTimeout + 1
\* hasWaiters is a uint64; the model keeps CounterBits of it.
Modulus == 2 ^ CounterBits
MaxUint64 == Modulus - 1

NoThread == 0
NoPanic == "none"

VARIABLES
    L,          \* cond.L: the thread holding the mutex, NoThread when free
    signal,     \* cond.signal: the identity of the current channel
    closed,     \* closed[c]: 0 while channel c is open, else the number of
                \*            the Interrupt call that closed it
    hasWaiters, \* cond.hasWaiters
    panic,      \* NoPanic, or the message of the panic that ended the process
    pc,         \* pc[t]: the statement thread t is at
    ch,         \* ch[t]: the local ch of Wait / WaitWithTimeout
    ok,         \* ok[t]: the ok of the receive "_, ok := <-ch"
    timeout,    \* timeout[t]: the argument of WaitWithTimeout
    elapsed,    \* elapsed[t]: clock ticks since begin (time.Now() - begin)
    rv,         \* rv[t]: the values of the return statement, before the defers
    result,     \* result[t]: what the wait call t has just returned from gave
    calls,      \* number of calls made on the cond so far
    nSignal,    \* number of Signal() calls so far
    nPost,      \* number of receives completed by a send of Signal
    nIntrDone,  \* number of Interrupt() calls that have returned
    startAt,    \* startAt[t]: nIntrDone when t's wait call began
    via,        \* via[t]: what ended t's block: "post", "close" or "timer"
    nUnlock,    \* nUnlock[t]: cond.L.Unlock() calls of t's current wait call
    nLock,      \* nLock[t]: cond.L.Lock() calls of t's current wait call
    early,      \* early[t]: t has still to poll its select, and the channel
                \*           it captured was closed while its timeout had not
                \*           elapsed
    owed        \* addWaiter calls minus removeWaiter calls so far, as an
                \* integer that does not wrap

condVars == <<L, signal, closed, hasWaiters, panic>>
thrVars == <<pc, ch, ok, timeout, elapsed, rv>>
histVars == <<result, calls, nSignal, nPost, nIntrDone, startAt, via,
              nUnlock, nLock, early, owed>>
vars == <<condVars, thrVars, histVars>>

WaitPCs == {"wait_recv", "wait_parked", "wait_lock", "wait_remove"}
WWTPCs == {"wwt_select", "wwt_parked", "wwt_end", "wwt_lock", "wwt_remove"}
InterruptPCs == {"intr_lock", "intr_close", "intr_make", "intr_unlock"}
ParkedPCs == {"wait_parked", "wwt_parked"}

\* Used by the mutant of RecvQ: t has released the lock in a wait call and
\* its receive has not completed.
InWaitBlockOrBefore(t) ==
    pc[t] \in {"wait_recv", "wait_parked", "wwt_select", "wwt_parked"}

NoRv == [remain |-> 0, interrupted |-> FALSE]
NoResult == [op |-> "none", remain |-> 0, interrupted |-> FALSE, via |-> "none"]

\* ------------------------------------------------------- NewTimeoutCond
Init ==
    /\ L = NoThread
    /\ signal = 0
    /\ closed = [c \in Chans |-> 0]
    /\ hasWaiters = 0
    /\ panic = NoPanic
    /\ pc = [t \in Threads |-> "idle"]
    /\ ch = [t \in Threads |-> 0]
    /\ ok = [t \in Threads |-> FALSE]
    /\ timeout = [t \in Threads |-> 0]
    /\ elapsed = [t \in Threads |-> 0]
    /\ rv = [t \in Threads |-> NoRv]
    /\ result = [t \in Threads |-> NoResult]
    /\ calls = 0
    /\ nSignal = 0
    /\ nPost = 0
    /\ nIntrDone = 0
    /\ startAt = [t \in Threads |-> 0]
    /\ via = [t \in Threads |-> "none"]
    /\ nUnlock = [t \in Threads |-> 0]
    /\ nLock = [t \in Threads |-> 0]
    /\ early = [t \in Threads |-> FALSE]
    /\ owed = 0

\* ------------------------------------------------------ the caller's lock
\* The process runs until a panic ends it.
Running == panic = NoPanic

\* Thread t is outside every call on the cond and takes its next step: the
\* result of the wait call it last returned from is behind it.
CallerStep(t) ==
    /\ Running
    /\ pc[t] = "idle"
    /\ result' = [result EXCEPT ![t] = NoResult]

\* sync.Mutex.Lock by the caller, outside any call on the cond, taken to
\* make one of the calls that remain.
Caller_Lock(t) ==
    /\ CallerStep(t)
    /\ calls < MaxCalls
    /\ L = NoThread
    /\ L' = t
    /\ UNCHANGED <<signal, closed, hasWaiters, panic, thrVars, calls, nSignal,
                   nPost, nIntrDone, startAt, via, nUnlock, nLock, early, owed>>

\* sync.Mutex.Unlock by the caller, outside any call on the cond.
Caller_Unlock(t) ==
    /\ CallerStep(t)
    /\ L = t
    /\ L' = NoThread
    /\ UNCHANGED <<signal, closed, hasWaiters, panic, thrVars, calls, nSignal,
                   nPost, nIntrDone, startAt, via, nUnlock, nLock, early, owed>>

\* ---------------------------------------------------------- waiter counter
\* atomic.AddUint64(&cond.hasWaiters, 1)
AddWaiterValue(v) == (v + 1) % Modulus
\* addWaiter panics when the counter wrapped to 0.
AddWaiterPanics(v) == AddWaiterValue(v) = 0

\* Mutant: the decrement of removeWaiter is lost.
RemoveWaiterValue_Lost(v) == v

\* atomic.AddUint64(&cond.hasWaiters, ^uint64(0))
RemoveWaiterValue(v) == (v + MaxUint64) % Modulus
\* removeWaiter panics when the counter wrapped to MaxUint64.
RemoveWaiterPanics(v) == RemoveWaiterValue(v) = MaxUint64

HasWaiters == hasWaiters > 0

\* cond.addWaiter(), the first statement of both wait calls; the call then
\* goes on to next.
addWaiter(t, next) ==
    /\ hasWaiters' = AddWaiterValue(hasWaiters)
    /\ owed' = owed + 1
    /\ IF AddWaiterPanics(hasWaiters)
       THEN /\ panic' = "too many waiters"
            /\ pc' = pc
       ELSE /\ panic' = panic
            /\ pc' = [pc EXCEPT ![t] = next]

\* cond.removeWaiter(), the last deferred call of both wait calls; the call
\* then returns to the caller.
removeWaiter(t, op) ==
    /\ hasWaiters' = RemoveWaiterValue(hasWaiters)
    /\ owed' = owed - 1
    /\ IF RemoveWaiterPanics(hasWaiters)
       THEN /\ panic' = "removeWaiter called more than once after addWaiter"
            /\ UNCHANGED <<pc, result>>
       ELSE /\ panic' = panic
            /\ pc' = [pc EXCEPT ![t] = "idle"]
            /\ result' = [result EXCEPT ![t] =
                   [op |-> op, remain |-> rv[t].remain,
                    interrupted |-> rv[t].interrupted, via |-> via[t]]]

\* ---------------------------------------------------------------- channels
\* Mutant: a send also reaches the goroutines that captured c and have not
\* begun their receive yet, as a buffered channel would let it.
RecvQ_Registered(c) == {t \in Threads : InWaitBlockOrBefore(t) /\ ch[t] = c}

\* The receive queue of channel c: the goroutines blocked in a receive on it.
RecvQ(c) == {t \in Threads : pc[t] \in ParkedPCs /\ ch[t] = c}

\* Mutant: a receive never finds its channel closed.
IsClosed_Never(c) == FALSE

\* A receive on c finds the channel closed and completes at once.
IsClosed(c) == closed[c] # 0

\* Mutant: the send resumes every goroutine of the receive queue.
SendWakes_All(c) == {RecvQ(c)}

\* Mutant: the send always takes the default case.
SendWakes_None(c) == {{}}

\* "select { case c <- 1: default: }" on the unbuffered channel c: the send
\* completes only by handing the value to one goroutine of the receive queue,
\* any one of them; with an empty queue the default case runs and the value
\* goes to nobody.  The result is the set of the sets of goroutines that the
\* send may resume.
SendWakes(c) == IF RecvQ(c) = {} THEN {{}} ELSE {{u} : u \in RecvQ(c)}

\* Mutant: a WaitWithTimeout whose receive has completed stays subject to
\* its timer.
AfterRecv_StillParked(p) == IF p \in WaitPCs THEN "wait_lock" ELSE "wwt_parked"

\* Where a goroutine at p continues once its receive has completed: Wait at
\* its return (line 74), WaitWithTimeout in the first case of its select.
AfterRecv(p) == IF p \in WaitPCs THEN "wait_lock" ELSE "wwt_end"

\* Mutant: Interrupt keeps the channel it has closed.
MakeChan_Reuse(s) == s

\* make(chan int, 0): a channel that is none of the existing ones.
MakeChan(s) == s + 1

\* The interrupted result of both wait calls: "!ok".
Interrupted(okv) == ~okv

\* Mutant: the remaining time is clamped at zero.
RemainTimeout_Clamped(d, e) == IF d > e THEN d - e ELSE 0

\* remainTimeout := timeout - time.Duration(end-begin)
RemainTimeout(d, e) == d - e

\* Mutant: the wait call does not release the lock.
Unlock_Skipped(holder) == holder

\* What cond.L.Unlock() by its holder leaves in the mutex.
Unlock(holder) == NoThread

\* Mutant: the wait call returns without the lock.
DeferredLock_Skipped(t) == NoThread

\* What the deferred cond.L.Lock() of thread t leaves in the mutex.
DeferredLock(t) == t

\* The goroutines of the set wake complete their receive, with a value of
\* Signal (okv = true) or with the close of Interrupt (okv = false).
Deliver(wake, okv, how) ==
    /\ ok' = [u \in Threads |-> IF u \in wake THEN okv ELSE ok[u]]
    /\ via' = [u \in Threads |-> IF u \in wake THEN how ELSE via[u]]

\* The locals of thread t's call and the records about it end with the call.
ResetLocals(t) ==
    /\ ch' = [ch EXCEPT ![t] = 0]
    /\ ok' = [ok EXCEPT ![t] = FALSE]
    /\ elapsed' = [elapsed EXCEPT ![t] = 0]
    /\ rv' = [rv EXCEPT ![t] = NoRv]
    /\ via' = [via EXCEPT ![t] = "none"]
    /\ nUnlock' = [nUnlock EXCEPT ![t] = 0]
    /\ nLock' = [nLock EXCEPT ![t] = 0]
    /\ timeout' = [timeout EXCEPT ![t] = 0]
    /\ startAt' = [startAt EXCEPT ![t] = 0]
    /\ early' = [early EXCEPT ![t] = FALSE]

\* --------------------------------------------------------------------- Wait
\* lines 67-70, which run with the caller's lock held and so as one step for
\* every other thread: cond.addWaiter(); ch := cond.signal; cond.L.Unlock()
Wait_enter(t) ==
    /\ CallerStep(t)
    /\ L = t
    /\ calls < MaxCalls
    /\ addWaiter(t, "wait_recv")
    /\ ch' = [ch EXCEPT ![t] = signal]
    /\ L' = Unlock(t)
    /\ nUnlock' = [nUnlock EXCEPT ![t] = @ + 1]
    /\ calls' = calls + 1
    /\ startAt' = [startAt EXCEPT ![t] = nIntrDone]
    /\ UNCHANGED <<signal, closed, ok, timeout, elapsed, rv, nSignal,
                   nPost, nIntrDone, via, nLock, early>>

\* line 73: "_, ok := <-ch" begins: a closed channel yields ok = false at
\* once, an open one blocks the goroutine in the channel's receive queue.
Wait_recv(t) ==
    /\ Running
    /\ pc[t] = "wait_recv"
    /\ IF IsClosed(ch[t])
       THEN /\ Deliver({t}, FALSE, "close")
            /\ pc' = [pc EXCEPT ![t] = "wait_lock"]
       ELSE /\ pc' = [pc EXCEPT ![t] = "wait_parked"]
            /\ UNCHANGED <<ok, via>>
    /\ UNCHANGED <<condVars, ch, timeout, elapsed, rv, result, calls,
                   nSignal, nPost, nIntrDone, startAt, nUnlock, nLock, early, owed>>

\* line 74 and the second defer (line 72), which runs first: the return
\* value !ok is fixed, then cond.L.Lock() blocks until the mutex is free.
Wait_Lock(t) ==
    /\ Running
    /\ pc[t] = "wait_lock"
    /\ L = NoThread
    /\ L' = DeferredLock(t)
    /\ rv' = [rv EXCEPT ![t] = [remain |-> 0, interrupted |-> Interrupted(ok[t])]]
    /\ nLock' = [nLock EXCEPT ![t] = @ + 1]
    /\ pc' = [pc EXCEPT ![t] = "wait_remove"]
    /\ UNCHANGED <<signal, closed, hasWaiters, panic, ch, ok, timeout, elapsed,
                   result, calls, nSignal, nPost, nIntrDone, startAt,
                   via, nUnlock, early, owed>>

\* the first defer (line 71), which runs last: cond.removeWaiter(); then
\* Wait returns.
Wait_removeWaiter(t) ==
    /\ Running
    /\ pc[t] = "wait_remove"
    /\ removeWaiter(t, "Wait")
    /\ ResetLocals(t)
    /\ UNCHANGED <<L, signal, closed, calls, nSignal, nPost, nIntrDone>>

\* ---------------------------------------------------------- WaitWithTimeout
\* lines 26-33 with timeout d, the first four with the caller's lock held:
\* cond.addWaiter(); ch := cond.signal; cond.L.Unlock(); begin is taken, and
\* the select evaluates time.After(timeout), which starts the timer.
WaitWithTimeout_enter(t, d) ==
    /\ CallerStep(t)
    /\ L = t
    /\ calls < MaxCalls
    /\ addWaiter(t, "wwt_select")
    /\ ch' = [ch EXCEPT ![t] = signal]
    /\ L' = Unlock(t)
    /\ timeout' = [timeout EXCEPT ![t] = d]
    /\ elapsed' = [elapsed EXCEPT ![t] = 0]
    /\ nUnlock' = [nUnlock EXCEPT ![t] = @ + 1]
    /\ calls' = calls + 1
    /\ startAt' = [startAt EXCEPT ![t] = nIntrDone]
    /\ UNCHANGED <<signal, closed, ok, rv, nSignal, nPost, nIntrDone, via,
                   nLock, early>>

\* Mutant: the timer of time.After never fires.
TimerDue_Never(t) == FALSE

\* The runtime timer of time.After(timeout) fires no earlier than timeout
\* after it was started, and may fire later.
TimerDue(t) == elapsed[t] >= timeout[t]

\* Goroutine t has started the timer of its select and has still to poll the
\* cases.
Polling(t) == pc[t] = "wwt_select"

\* The cases of the select that may be able to proceed when the select polls
\* them: the receive from ch when ch is closed (an open unbuffered channel
\* has no value waiting), the receive from the timer when it has fired.
ReadyCases(t) ==
    (IF IsClosed(ch[t]) THEN {"chan"} ELSE {}) \cup
    (IF TimerDue(t) THEN {"timer"} ELSE {})

\* line 40: return 0, false
TimeoutReturn == [remain |-> 0, interrupted |-> FALSE]

\* The timeout, the clock reading and what was recorded against them are
\* dead once the return values are fixed.
StopClock(t) ==
    /\ timeout' = [timeout EXCEPT ![t] = 0]
    /\ elapsed' = [elapsed EXCEPT ![t] = 0]
    /\ early' = [early EXCEPT ![t] = FALSE]

\* The select resumes goroutine t in its timer case (lines 39-40).
TimerCase(t) ==
    /\ via' = [via EXCEPT ![t] = "timer"]
    /\ rv' = [rv EXCEPT ![t] = TimeoutReturn]
    /\ pc' = [pc EXCEPT ![t] = "wwt_lock"]
    /\ StopClock(t)

\* line 34: the select polls its cases; one that can proceed is taken (any
\* one when both can), and with none the goroutine blocks on both channels.
\* A timer that is due may not have fired yet when the select polls.
WaitWithTimeout_select(t) ==
    /\ Running
    /\ pc[t] = "wwt_select"
    /\ \/ /\ "chan" \in ReadyCases(t)
          /\ Deliver({t}, FALSE, "close")
          /\ pc' = [pc EXCEPT ![t] = "wwt_end"]
          /\ early' = [early EXCEPT ![t] = FALSE]
          /\ UNCHANGED <<rv, timeout, elapsed>>
       \/ /\ "timer" \in ReadyCases(t)
          /\ TimerCase(t)
          /\ UNCHANGED ok
       \/ /\ "chan" \notin ReadyCases(t)
          /\ pc' = [pc EXCEPT ![t] = "wwt_parked"]
          /\ UNCHANGED <<ok, via, rv, timeout, elapsed, early>>
    /\ UNCHANGED <<condVars, ch, result, calls, nSignal, nPost, nIntrDone,
                   startAt, nUnlock, nLock, owed>>

\* The timer fires while goroutine t is blocked in the select: t is resumed
\* in the timer case.
TimerFire(t) ==
    /\ Running
    /\ pc[t] = "wwt_parked"
    /\ TimerDue(t)
    /\ TimerCase(t)
    /\ UNCHANGED <<condVars, ch, ok, result, calls, nSignal, nPost,
                   nIntrDone, startAt, nUnlock, nLock, owed>>

\* lines 36-38: end is taken and the return values are fixed.
WaitWithTimeout_end(t) ==
    /\ Running
    /\ pc[t] = "wwt_end"
    /\ rv' = [rv EXCEPT ![t] = [remain |-> RemainTimeout(timeout[t], elapsed[t]),
                                interrupted |-> Interrupted(ok[t])]]
    /\ StopClock(t)
    /\ pc' = [pc EXCEPT ![t] = "wwt_lock"]
    /\ UNCHANGED <<condVars, ch, ok, result, calls, nSignal, nPost, nIntrDone,
                   startAt, via, nUnlock, nLock, owed>>

\* the second defer (line 31), which runs first: cond.L.Lock()
WaitWithTimeout_Lock(t) ==
    /\ Running
    /\ pc[t] = "wwt_lock"
    /\ L = NoThread
    /\ L' = DeferredLock(t)
    /\ nLock' = [nLock EXCEPT ![t] = @ + 1]
    /\ pc' = [pc EXCEPT ![t] = "wwt_remove"]
    /\ UNCHANGED <<signal, closed, hasWaiters, panic, ch, ok, timeout, elapsed,
                   rv, result, calls, nSignal, nPost, nIntrDone,
                   startAt, via, nUnlock, early, owed>>

\* the first defer (line 30), which runs last: cond.removeWaiter(); then
\* WaitWithTimeout returns.
WaitWithTimeout_removeWaiter(t) ==
    /\ Running
    /\ pc[t] = "wwt_remove"
    /\ removeWaiter(t, "WaitWithTimeout")
    /\ ResetLocals(t)
    /\ UNCHANGED <<L, signal, closed, calls, nSignal, nPost, nIntrDone>>

\* The goroutines whose time.Now() - begin is still to be read.
Measuring == {t \in Threads : pc[t] \in {"wwt_select", "wwt_parked", "wwt_end"}}

\* The clock advances by one tick.
Tick ==
    /\ Running
    /\ Measuring # {}
    /\ \A t \in Measuring : elapsed[t] < MaxElapsed
    /\ elapsed' = [t \in Threads |->
                     IF t \in Measuring THEN elapsed[t] + 1 ELSE elapsed[t]]
    /\ UNCHANGED <<condVars, pc, ch, ok, timeout, rv, histVars>>

\* ------------------------------------------------------------------- Signal
\* lines 79-82, called with the lock held: one non-blocking send on
\* cond.signal.  A send on a closed channel panics.
Signal(t) ==
    /\ CallerStep(t)
    /\ L = t
    /\ calls < MaxCalls
    /\ calls' = calls + 1
    /\ nSignal' = nSignal + 1
    /\ IF IsClosed(signal)
       THEN /\ panic' = "send on closed channel"
            /\ UNCHANGED <<pc, ok, via, nPost>>
       ELSE /\ panic' = panic
            /\ \E wake \in SendWakes(signal) :
                 /\ Deliver(wake, TRUE, "post")
                 /\ pc' = [u \in Threads |->
                             IF u \in wake THEN AfterRecv(pc[u]) ELSE pc[u]]
                 /\ nPost' = nPost + Cardinality(wake)
    /\ UNCHANGED <<L, signal, closed, hasWaiters, ch, timeout, elapsed,
                   rv, nIntrDone, startAt, nUnlock, nLock, early, owed>>

\* ---------------------------------------------------------------- Interrupt
\* Interrupt() is called by a thread that does not hold the lock: line 87
\* locks the mutex, which is not reentrant.
Interrupt_call(t) ==
    /\ CallerStep(t)
    /\ L # t
    /\ calls < MaxCalls
    /\ calls' = calls + 1
    /\ pc' = [pc EXCEPT ![t] = "intr_lock"]
    /\ UNCHANGED <<condVars, ch, ok, timeout, elapsed, rv, nSignal,
                   nPost, nIntrDone, startAt, via, nUnlock, nLock, early, owed>>

\* Mutant: Interrupt goes on to close without taking the lock.
Interrupt_Lock_Skipped(t) ==
    /\ Running
    /\ pc[t] = "intr_lock"
    /\ pc' = [pc EXCEPT ![t] = "intr_close"]
    /\ UNCHANGED <<condVars, ch, ok, timeout, elapsed, rv, histVars>>

\* line 87: cond.L.Lock()
Interrupt_Lock(t) ==
    /\ Running
    /\ pc[t] = "intr_lock"
    /\ L = NoThread
    /\ L' = t
    /\ pc' = [pc EXCEPT ![t] = "intr_close"]
    /\ UNCHANGED <<signal, closed, hasWaiters, panic, ch, ok, timeout, elapsed,
                   rv, histVars>>

\* line 89: close(cond.signal) resumes every goroutine of the receive queue
\* with ok = false.  Closing a closed channel panics.
Interrupt_close(t) ==
    /\ Running
    /\ pc[t] = "intr_close"
    /\ IF IsClosed(signal)
       THEN /\ panic' = "close of closed channel"
            /\ UNCHANGED <<closed, pc, ok, via, early>>
       ELSE /\ panic' = panic
            /\ closed' = [closed EXCEPT ![signal] = nIntrDone + 1]
            /\ Deliver(RecvQ(signal), FALSE, "close")
            /\ pc' = [u \in Threads |->
                        IF u = t THEN "intr_make"
                        ELSE IF u \in RecvQ(signal) THEN AfterRecv(pc[u])
                        ELSE pc[u]]
            /\ early' = [u \in Threads |->
                           early[u] \/ (Polling(u) /\ ch[u] = signal /\ ~TimerDue(u))]
    /\ UNCHANGED <<L, signal, hasWaiters, ch, timeout, elapsed, rv,
                   result, calls, nSignal, nPost, nIntrDone, startAt,
                   nUnlock, nLock, owed>>

\* line 90: cond.signal = make(chan int, 0)
Interrupt_make(t) ==
    /\ Running
    /\ pc[t] = "intr_make"
    /\ signal' = MakeChan(signal)
    /\ pc' = [pc EXCEPT ![t] = "intr_unlock"]
    /\ UNCHANGED <<L, closed, hasWaiters, panic, ch, ok, timeout, elapsed,
                   rv, histVars>>

\* the defer of line 88: cond.L.Unlock(); then Interrupt returns.
Interrupt_Unlock(t) ==
    /\ Running
    /\ pc[t] = "intr_unlock"
    /\ L' = NoThread
    /\ nIntrDone' = nIntrDone + 1
    /\ pc' = [pc EXCEPT ![t] = "idle"]
    /\ UNCHANGED <<signal, closed, hasWaiters, panic, ch, ok, timeout, elapsed,
                   rv, result, calls, nSignal, nPost, startAt, via,
                   nUnlock, nLock, early, owed>>

\* ------------------------------------------------------------ specification
Next ==
    \/ \E t \in Threads : Caller_Lock(t)
    \/ \E t \in Threads : Caller_Unlock(t)
    \/ \E t \in Threads : Wait_enter(t)
    \/ \E t \in Threads : Wait_recv(t)
    \/ \E t \in Threads : Wait_Lock(t)
    \/ \E t \in Threads : Wait_removeWaiter(t)
    \/ \E t \in Threads : \E d \in Timeouts : WaitWithTimeout_enter(t, d)
    \/ \E t \in Threads : WaitWithTimeout_select(t)
    \/ \E t \in Threads : WaitWithTimeout_end(t)
    \/ \E t \in Threads : WaitWithTimeout_Lock(t)
    \/ \E t \in Threads : WaitWithTimeout_removeWaiter(t)
    \/ \E t \in Threads : TimerFire(t)
    \/ Tick
    \/ \E t \in Threads : Signal(t)
    \/ \E t \in Threads : Interrupt_call(t)
    \/ \E t \in Threads : Interrupt_Lock(t)
    \/ \E t \in Threads : Interrupt_close(t)
    \/ \E t \in Threads : Interrupt_make(t)
    \/ \E t \in Threads : Interrupt_Unlock(t)

Spec == Init /\ [][Next]_vars

\* ------------------------------------------- Signal without the lock held
\* The channels that the read of cond.signal in line 80 may yield when the
\* caller does not hold the lock.  The read then races with the write of
\* line 90: until the Interrupt that wrote has released the lock, nothing
\* orders the write before the read, which may yield the channel that was
\* replaced as well as the new one.
RacyRead ==
    {signal} \cup
    {c \in Chans : MakeChan(c) = signal /\ \E u \in Threads : pc[u] = "intr_unlock"}

\* lines 79-82, called by a thread that does not hold the lock, such as one
\* that has just released it.
Signal_unlocked(t) ==
    /\ CallerStep(t)
    /\ L # t
    /\ calls < MaxCalls
    /\ calls' = calls + 1
    /\ nSignal' = nSignal + 1
    /\ \E c \in RacyRead :
         IF IsClosed(c)
         THEN /\ panic' = "send on closed channel"
              /\ UNCHANGED <<pc, ok, via, nPost>>
         ELSE /\ panic' = panic
              /\ \E wake \in SendWakes(c) :
                   /\ Deliver(wake, TRUE, "post")
                   /\ pc' = [u \in Threads |->
                               IF u \in wake THEN AfterRecv(pc[u]) ELSE pc[u]]
                   /\ nPost' = nPost + Cardinality(wake)
    /\ UNCHANGED <<L, signal, closed, hasWaiters, ch, timeout, elapsed,
                   rv, nIntrDone, startAt, nUnlock, nLock, early, owed>>

\* The cond with callers that also call Signal without holding the lock.
RaceNext ==
    \/ Next
    \/ \E t \in Threads : Signal_unlocked(t)

RaceSpec == Init /\ [][RaceNext]_vars

\* ------------------------------------------------ the counter on its own
\* addWaiter and removeWaiter called directly by goroutines, in any number
\* and order, on a counter that holds any value.  The atomic add (lines 45
\* and 53) is one step, seen by every goroutine; the test of its result v
\* is local to the caller, which either returns or goes on to panic (lines
\* 47 and 56), one more step.
CounterInit ==
    /\ hasWaiters \in 0..MaxUint64
    /\ owed = hasWaiters
    /\ L = NoThread
    /\ signal = 0
    /\ closed = [c \in Chans |-> 0]
    /\ panic = NoPanic
    /\ pc = [t \in Threads |-> "idle"]
    /\ ch = [t \in Threads |-> 0]
    /\ ok = [t \in Threads |-> FALSE]
    /\ timeout = [t \in Threads |-> 0]
    /\ elapsed = [t \in Threads |-> 0]
    /\ rv = [t \in Threads |-> NoRv]
    /\ result = [t \in Threads |-> NoResult]
    /\ calls = 0
    /\ nSignal = 0
    /\ nPost = 0
    /\ nIntrDone = 0
    /\ startAt = [t \in Threads |-> 0]
    /\ via = [t \in Threads |-> "none"]
    /\ nUnlock = [t \in Threads |-> 0]
    /\ nLock = [t \in Threads |-> 0]
    /\ early = [t \in Threads |-> FALSE]

\* Thread t calls addWaiter (p = "add_atomic") or removeWaiter
\* (p = "remove_atomic").
Counter_call(t, p) ==
    /\ CallerStep(t)
    /\ calls < MaxCalls
    /\ calls' = calls + 1
    /\ pc' = [pc EXCEPT ![t] = p]
    /\ UNCHANGED <<condVars, ch, ok, timeout, elapsed, rv, nSignal, nPost,
                   nIntrDone, startAt, via, nUnlock, nLock, early, owed>>

\* line 45: v := atomic.AddUint64(&cond.hasWaiters, 1), and the test of
\* line 46.
addWaiter_atomic(t) ==
    /\ Running
    /\ pc[t] = "add_atomic"
    /\ hasWaiters' = AddWaiterValue(hasWaiters)
    /\ owed' = owed + 1
    /\ pc' = [pc EXCEPT ![t] =
                 IF AddWaiterPanics(hasWaiters) THEN "add_panic" ELSE "idle"]
    /\ UNCHANGED <<L, signal, closed, panic, ch, ok, timeout, elapsed, rv,
                   result, calls, nSignal, nPost, nIntrDone, startAt, via,
                   nUnlock, nLock, early>>

\* line 47: panic("too many waiters; max is ...")
addWaiter_panic(t) ==
    /\ Running
    /\ pc[t] = "add_panic"
    /\ panic' = "too many waiters"
    /\ UNCHANGED <<L, signal, closed, hasWaiters, thrVars, histVars>>

\* line 53: v := atomic.AddUint64(&cond.hasWaiters, ^uint64(0)), and the
\* test of line 55.
removeWaiter_atomic(t) ==
    /\ Running
    /\ pc[t] = "remove_atomic"
    /\ hasWaiters' = RemoveWaiterValue(hasWaiters)
    /\ owed' = owed - 1
    /\ pc' = [pc EXCEPT ![t] =
                 IF RemoveWaiterPanics(hasWaiters) THEN "remove_panic" ELSE "idle"]
    /\ UNCHANGED <<L, signal, closed, panic, ch, ok, timeout, elapsed, rv,
                   result, calls, nSignal, nPost, nIntrDone, startAt, via,
                   nUnlock, nLock, early>>

\* line 56: panic("removeWaiter called more than once after addWaiter")
removeWaiter_panic(t) ==
    /\ Running
    /\ pc[t] = "remove_panic"
    /\ panic' = "removeWaiter called more than once after addWaiter"
    /\ UNCHANGED <<L, signal, closed, hasWaiters, thrVars, histVars>>

CounterNext ==
    \/ \E t \in Threads : \E p \in {"add_atomic", "remove_atomic"} :
           Counter_call(t, p)
    \/ \E t \in Threads : addWaiter_atomic(t)
    \/ \E t \in Threads : addWaiter_panic(t)
    \/ \E t \in Threads : removeWaiter_atomic(t)
    \/ \E t \in Threads : removeWaiter_panic(t)

CounterSpec == CounterInit /\ [][CounterNext]_vars

\* The goroutine of thread t is scheduled and runs a statement that waits
\* for nothing.
Internal(t) ==
    \/ Wait_recv(t)
    \/ Wait_removeWaiter(t)
    \/ WaitWithTimeout_select(t)
    \/ WaitWithTimeout_end(t)
    \/ WaitWithTimeout_removeWaiter(t)
    \/ Interrupt_close(t)
    \/ Interrupt_make(t)
    \/ Interrupt_Unlock(t)

\* Thread t gets the mutex inside a call on the cond.
Acquire(t) == Wait_Lock(t) \/ WaitWithTimeout_Lock(t) \/ Interrupt_Lock(t)

\* The scheduler runs every runnable goroutine, the clock advances and due
\* timers fire; a caller that holds the lock releases it; sync.Mutex hands
\* the lock to a goroutine that keeps waiting for it (starvation mode).
\* Nothing obliges a caller to make a further call.
Fairness ==
    /\ \A t \in Threads : WF_vars(Internal(t))
    /\ \A t \in Threads : SF_vars(Acquire(t))
    /\ \A t \in Threads : WF_vars(Caller_Unlock(t))
    /\ \A t \in Threads : WF_vars(TimerFire(t))
    /\ WF_vars(Tick)

LiveSpec == Spec /\ Fairness

\* ---------------------------------------- Interrupt with the lock held
\* Interrupt() is called by a thread that holds the lock, as every other
\* call on the cond is: line 87 then locks a mutex its own caller holds.
Interrupt_call_locked(t) ==
    /\ CallerStep(t)
    /\ L = t
    /\ calls < MaxCalls
    /\ calls' = calls + 1
    /\ pc' = [pc EXCEPT ![t] = "intr_lock"]
    /\ UNCHANGED <<condVars, ch, ok, timeout, elapsed, rv, nSignal,
                   nPost, nIntrDone, startAt, via, nUnlock, nLock, early,
                   owed>>

\* The cond with callers that also call Interrupt while holding the lock.
HeldNext ==
    \/ Next
    \/ \E t \in Threads : Interrupt_call_locked(t)

HeldSpec == Init /\ [][HeldNext]_vars

\* ------------------------------------------------------------------ claims
\* Thread t is inside a wait call: it has run addWaiter and has not returned.
InWait(t) == pc[t] \in WaitPCs \cup WWTPCs

\* The threads blocked in their receive on channel c.
ParkedOn(c) == {t \in Threads : pc[t] \in ParkedPCs /\ ch[t] = c}

\* This step is a call of Signal().
SignalStep == nSignal' = nSignal + 1

\* This step is thread t's return from its wait call.
ReturnStep(t) == pc[t] \in {"wait_remove", "wwt_remove"} /\ pc'[t] = "idle"

\* C1: a Signal() made under the lock after thread w released the lock
\* inside Wait(), w being the only waiter and no Interrupt having closed its
\* channel, wakes w with ok = true (interrupted = false), wherever w is
\* between its Unlock and its blocking receive.
C1_NoSignalLostInGap ==
    [][\A w \in Threads :
         (/\ SignalStep
          /\ pc[w] \in {"wait_recv", "wait_parked"}
          /\ ch[w] = signal
          /\ closed[signal] = 0
          /\ \A u \in Threads \ {w} : ~InWait(u))
         => (via'[w] = "post" /\ ok'[w] /\ pc'[w] = "wait_lock")]_vars

\* C2: Interrupt() wakes every waiter of the channel it closes: a thread in
\* Wait() whose captured channel is closed and whose receive was not
\* completed by a post-one, whether blocked at the close or still between
\* its Unlock and its receive, returns from Wait with interrupted = true; no
\* thread stays blocked on a closed channel; and when no wait call is in
\* progress HasWaiters() is false.
C2_InterruptWakesAll ==
    /\ \A t \in Threads :
         (pc[t] \in WaitPCs /\ closed[ch[t]] # 0 /\ via[t] # "post")
            ~> (result[t].op = "Wait" /\ result[t].interrupted)
    /\ [](\A t \in Threads : pc[t] \in ParkedPCs => closed[ch[t]] = 0)
    /\ []((\A t \in Threads : ~InWait(t)) => ~HasWaiters)

\* One Interrupt has ended the Wait of two threads: one has returned
\* interrupted = true, the other is on its way out.
C2_Witness ==
    \E t, u \in Threads :
        /\ t # u
        /\ result[t].op = "Wait"
        /\ result[t].interrupted
        /\ pc[u] \in WaitPCs
        /\ via[u] = "close"
        /\ nIntrDone = 1

\* C3: a wait call that begins after an Interrupt() has returned is never
\* woken by that Interrupt: when the close of its channel ends its block,
\* the closing Interrupt is one that had not returned when the call began.
C3_NotWokenByEarlierInterrupt ==
    \A t \in Threads :
        via[t] = "close" => (InWait(t) /\ closed[ch[t]] > startAt[t])

\* A wait call begun after an Interrupt had returned is woken by a later one.
C3_Witness ==
    \E t \in Threads :
        /\ via[t] = "close"
        /\ startAt[t] >= 1
        /\ pc[t] \in {"wait_remove", "wwt_remove"}

\* C4: every return from Wait() and WaitWithTimeout() happens with the
\* caller holding the lock, after exactly one Unlock and then exactly one
\* Lock made by the call, on the signal, interrupt and timeout paths alike.
C4_ReturnsHoldingLock ==
    /\ [][\A t \in Threads :
            ReturnStep(t) =>
                (L = t /\ L' = t /\ nUnlock[t] = 1 /\ nLock[t] = 1)]_vars
    /\ [](\A t \in Threads : nLock[t] <= nUnlock[t] /\ nUnlock[t] <= 1)

\* A WaitWithTimeout has returned on its timeout path and its caller holds
\* the lock.
C4_Witness ==
    \E t \in Threads :
        /\ result[t].op = "WaitWithTimeout"
        /\ result[t].via = "timer"
        /\ L = t

\* C5: a thread blocked inside Wait or WaitWithTimeout does not hold the
\* lock, and an Interrupt() called by a thread that does not hold the lock
\* gets the lock and returns, however many threads are blocked in waits.
C5_BlockedWaitersDoNotHoldLock ==
    /\ [](\A t \in Threads : pc[t] \in ParkedPCs => L # t)
    /\ \A t \in Threads : (pc[t] = "intr_lock") ~> (pc[t] = "idle")

\* An Interrupt holds the lock and is about to close the channel on which
\* two other threads are blocked.
C5_Witness ==
    \E t \in Threads :
        /\ pc[t] = "intr_close"
        /\ L = t
        /\ Cardinality(ParkedOn(signal)) = 2

\* C6: when Signal() runs while at least one thread is blocked in its
\* receive on the current channel, exactly one of them is woken, with
\* ok = true, every other blocked thread stays blocked, and the woken call
\* returns interrupted = false.
C6_SignalWakesExactlyOne ==
    /\ [][(SignalStep /\ ParkedOn(signal) # {}) =>
            \E u \in ParkedOn(signal) :
                /\ pc'[u] \notin ParkedPCs
                /\ ok'[u]
                /\ via'[u] = "post"
                /\ \A v \in Threads \ {u} :
                       pc[v] \in ParkedPCs => (pc'[v] = pc[v] /\ via'[v] = via[v])]_vars
    /\ [](\A t \in Threads : result[t].via = "post" => ~result[t].interrupted)

\* A Signal has woken one of two blocked threads, which has returned
\* interrupted = false; the other is still blocked.
C6_Witness ==
    \E u, v \in Threads :
        /\ result[u].via = "post"
        /\ ~result[u].interrupted
        /\ pc[v] \in ParkedPCs

\* C7: the receives completed by a post-one never outnumber the Signal()
\* calls made so far, a receive is completed by a post-one only in the step
\* of a Signal() call and only for a thread that has released the lock and
\* is blocked, and a wait call returns interrupted = false only after a
\* post-one or its own timer.
C7_AtMostOneWakePerSignal ==
    /\ [](nPost <= nSignal)
    /\ [](Cardinality({t \in Threads : via[t] = "post"}) <= nSignal)
    /\ [][\A t \in Threads :
            (via'[t] = "post" /\ via[t] # "post") =>
                (SignalStep /\ pc[t] \in ParkedPCs /\ L # t /\ nUnlock[t] = 1)]_vars
    /\ [](\A t \in Threads :
            (result[t].op = "Wait" /\ ~result[t].interrupted)
                => result[t].via = "post")

\* Two threads were blocked, one Signal was made and one thread has returned
\* from Wait with interrupted = false.
C7_Witness ==
    \E t, u \in Threads :
        /\ result[t].op = "Wait"
        /\ ~result[t].interrupted
        /\ nSignal = 1
        /\ pc[u] \in ParkedPCs

\* C8: a Signal() made while no thread is blocked on the current channel
\* neither panics nor changes anything of the cond or of any thread: the
\* channel, the waiter counter, the lock and every thread's position and
\* locals stay as they are, so nothing is left for a later wait to receive.
C8_SignalWithoutWaiterIsNoOp ==
    [][(SignalStep /\ ParkedOn(signal) = {}) =>
          UNCHANGED <<L, signal, closed, hasWaiters, panic, pc, ch, ok,
                      timeout, elapsed, rv, via, nPost>>]_vars

\* A Signal was made with no thread blocked, and a Wait begun afterwards is
\* blocked, not woken.
C8_Witness ==
    \E t \in Threads :
        /\ nSignal >= 1
        /\ nPost = 0
        /\ calls = 2
        /\ pc[t] = "wait_parked"

\* C9: waiterCount is the number of threads inside a wait call, so
\* HasWaiters() is true exactly while at least one wait call is in progress.
C9_CounterCountsWaiters ==
    /\ hasWaiters = Cardinality({t \in Threads : InWait(t)})
    /\ HasWaiters <=> (\E t \in Threads : InWait(t))

\* One wait call has returned while another is still in progress.
C9_Witness ==
    /\ \E t \in Threads : result[t].op # "none"
    /\ hasWaiters = 1
    /\ \E t \in Threads : InWait(t)

\* C10: every WaitWithTimeout call returns, and when no Signal was made and
\* no channel was closed it returns (0, false), by its timer.
C10_TimeoutAlwaysReturns ==
    /\ \A t \in Threads :
         (pc[t] \in WWTPCs) ~> (result[t].op = "WaitWithTimeout")
    /\ [](\A t \in Threads :
            (/\ result[t].op = "WaitWithTimeout"
             /\ nSignal = 0
             /\ \A c \in Chans : closed[c] = 0)
            => (/\ result[t].remain = 0
                /\ ~result[t].interrupted
                /\ result[t].via = "timer"))

\* A WaitWithTimeout has returned (0, false) with no Signal and no
\* Interrupt made at all.
C10_Witness ==
    \E t \in Threads :
        /\ result[t] = [op |-> "WaitWithTimeout", remain |-> 0,
                        interrupted |-> FALSE, via |-> "timer"]
        /\ nSignal = 0
        /\ \A u \in Threads : pc[u] \notin InterruptPCs
        /\ \A c \in Chans : closed[c] = 0

\* C11: the result of WaitWithTimeout tells how the call left its select.
\* When the receive from the captured channel completed, the call returns
\* remaining = timeout - elapsed, elapsed being the clock reading taken after
\* the receive and remaining not clamped at zero, and interrupted = true
\* exactly when the receive was completed by the close of the channel;
\* when the timer case was taken it returns (0, false).
C11_ResultTellsHowItWoke ==
    /\ [][\A t \in Threads :
            (pc[t] = "wwt_end" /\ pc'[t] = "wwt_lock") =>
                /\ via[t] \in {"post", "close"}
                /\ rv'[t].remain = timeout[t] - elapsed[t]
                /\ rv'[t].interrupted = (via[t] = "close")]_vars
    /\ [](\A t \in Threads :
            result[t].op = "WaitWithTimeout" =>
                /\ result[t].via \in {"post", "close", "timer"}
                /\ result[t].interrupted <=> (result[t].via = "close")
                /\ result[t].via = "timer" => result[t].remain = 0)

\* A WaitWithTimeout woken by a Signal after its timeout had passed has
\* returned a negative remaining time and interrupted = false.
C11_Witness ==
    \E t \in Threads :
        /\ result[t].op = "WaitWithTimeout"
        /\ result[t].via = "post"
        /\ result[t].remain < 0
        /\ ~result[t].interrupted

\* C12: a WaitWithTimeout whose captured channel is closed by Interrupt()
\* while its timeout has not elapsed leaves its select by the channel case
\* with ok = false and returns interrupted = true, also when the timeout
\* elapses before the goroutine runs again; this whether the goroutine is
\* blocked in the select at the close or has still to poll it.
C12_EarlyCloseReturnsInterrupted ==
    /\ [][\A t \in Threads :
            /\ (pc[t] = "wwt_parked" /\ ~TimerDue(t)
                    /\ closed[ch[t]] = 0 /\ closed'[ch[t]] # 0)
                   => (pc'[t] = "wwt_end" /\ ~ok'[t])
            /\ (pc[t] = "wwt_select" /\ early[t] /\ pc'[t] # "wwt_select")
                   => (pc'[t] = "wwt_end" /\ ~ok'[t])]_vars
    /\ [][\A t \in Threads :
            (pc[t] = "wwt_end" /\ ~ok[t] /\ pc'[t] # "wwt_end")
                => rv'[t].interrupted]_vars

\* C13: Signal() never panics, whether its caller holds the lock or has
\* just released it and however the call interleaves with Interrupt() and
\* with waiters: it never sends on a channel that has been closed.
C13_SignalNeverPanics == panic # "send on closed channel"

\* This step is the atomic add of a removeWaiter call of thread t.
RemoveStep(t) == pc[t] = "remove_atomic" /\ pc'[t] # "remove_atomic"

\* This step is the atomic add of an addWaiter call of thread t.
AddStep(t) == pc[t] = "add_atomic" /\ pc'[t] # "add_atomic"

\* The counter holds a value that is not the number of additions less the
\* number of removals: it has wrapped.
Wrapped == hasWaiters # owed

\* C14: every removeWaiter call made when the removals so far equal or
\* exceed the additions goes on to panic, every addWaiter call that wraps
\* the counter past its maximum goes on to panic, and the counter holds a
\* wrapped value only while the call that wrapped it is about to panic or
\* has panicked.
C14_WrapIsFatal ==
    /\ [][\A t \in Threads :
            (RemoveStep(t) /\ owed <= 0) => pc'[t] = "remove_panic"]_vars
    /\ [][\A t \in Threads :
            (AddStep(t) /\ owed >= MaxUint64) => pc'[t] = "add_panic"]_vars
    /\ [](Wrapped =>
            \/ panic # NoPanic
            \/ \E t \in Threads : pc[t] \in {"add_panic", "remove_panic"})

\* Thread t is in the critical section of Interrupt: it has locked (line
\* 87) and has not unlocked.
InInterrupt(t) == pc[t] \in {"intr_close", "intr_make", "intr_unlock"}

\* C15: cond.signal changes only in the make step of an Interrupt that
\* holds the lock; whenever no thread is in Interrupt's critical section the
\* current channel is open; a channel is closed at most once, also when
\* Interrupt calls overlap, and stays closed; and a closed channel that has
\* been replaced is never the current channel again.
C15_GenerationReplacedUnderLock ==
    /\ [][signal' # signal =>
            \E t \in Threads :
                pc[t] = "intr_make" /\ pc'[t] = "intr_unlock" /\ L = t]_vars
    /\ []((\A t \in Threads : ~InInterrupt(t)) => closed[signal] = 0)
    /\ [](\A t \in Threads : InInterrupt(t) => L = t)
    /\ [](panic # "close of closed channel")
    /\ [][\A c \in Chans : closed[c] # 0 => closed'[c] = closed[c]]_vars
    /\ [][\A c \in Chans :
            (closed[c] # 0 /\ signal' # signal) => signal' # c]_vars

\* Interrupt calls overlap: after one Interrupt has returned, a second has
\* closed the channel that the first made and a third waits for the lock.
C15_Witness ==
    \E t, u \in Threads :
        /\ pc[t] = "intr_make"
        /\ pc[u] = "intr_lock"
        /\ nIntrDone = 1
        /\ closed[0] # 0
        /\ closed[signal] # 0
        /\ signal # 0

\* Thread t has left its block in a wait call and has only the lock to
\* re-acquire.
AtDeferredLock(t) == pc[t] \in {"wait_lock", "wwt_lock"}

\* C16: on the way out of Wait and WaitWithTimeout the counter is
\* decremented before the lock is re-acquired, without the lock held: a
\* thread that has been woken and is only waiting for the lock is not
\* counted any more, and no thread holds the lock in the step of its
\* removeWaiter.
C16_DecrementBeforeLock ==
    /\ [](\A t \in Threads :
            AtDeferredLock(t) =>
                hasWaiters <= Cardinality({u \in Threads \ {t} : InWait(u)}))
    /\ [][\A t \in Threads :
            (pc[t] \in {"wait_remove", "wwt_remove"} /\ pc'[t] # pc[t])
                => L # t]_vars

\* The next statement of thread t's Interrupt() call.
InterruptStep(t) ==
    \/ Interrupt_Lock(t)
    \/ Interrupt_close(t)
    \/ Interrupt_make(t)
    \/ Interrupt_Unlock(t)

\* C17: an Interrupt() called by a thread that holds the lock, the mutex
\* being non-reentrant, terminates: while the call has not returned and its
\* thread holds the lock, the call's next statement can run.  (Only the
\* holder releases the lock, so a call that cannot run its next statement
\* with the lock in its own thread's hands never runs it.)
C17_InterruptWithLockHeldReturns ==
    \A t \in Threads :
        (Running /\ pc[t] \in InterruptPCs /\ L = t) => ENABLED InterruptStep(t)

\* C18: a post-one is never consumed by a waiter that then reports a
\* timeout.  A thread whose receive was completed by the send of a Signal
\* keeps that outcome until it returns, and returns by the channel case
\* with interrupted = false; its timer cannot take it any more.  When a
\* Signal finds a Wait and a WaitWithTimeout blocked on the current channel
\* it wakes exactly one of them, and every thread so woken returns as
\* signaled.
C18_PostNeverEndsAsTimeout ==
    /\ [][\A t \in Threads :
            via[t] = "post" =>
                \/ via'[t] = "post"
                \/ (ReturnStep(t) /\ result'[t].via = "post"
                                  /\ ~result'[t].interrupted)]_vars
    /\ [](\A t \in Threads :
            result[t].via = "timer" => (result[t].remain = 0 /\ via[t] # "post"))
    /\ [][(SignalStep /\ \E t, u \in ParkedOn(signal) :
                            pc[t] = "wait_parked" /\ pc[u] = "wwt_parked")
            => Cardinality({t \in Threads : via'[t] = "post"})
                 = Cardinality({t \in Threads : via[t] = "post"}) + 1]_vars
    /\ \A t \in Threads : (via[t] = "post") ~> (result[t].via = "post")

\* A Wait and a WaitWithTimeout were blocked, one Signal was made, and the
\* WaitWithTimeout has returned as signaled while the Wait is still blocked.
C18_Witness ==
    \E t, u \in Threads :
        /\ nSignal = 1
        /\ result[t].op = "WaitWithTimeout"
        /\ result[t].via = "post"
        /\ ~result[t].interrupted
        /\ pc[u] = "wait_parked"

====
